---- MODULE Spec2Model ----
(***************************************************************************)
(* Reports view of the CRM (src/src/components/ProjectList.tsx): the       *)
(* client-side aggregation pipeline `processedData` (filter -> group ->    *)
(* metric -> label -> sort) and the component state that feeds it.         *)
(* Project list (src/components/ProjectList.tsx): the active filter and    *)
(* the filtered list it gets from applyFilterLogic.                        *)
(*                                                                         *)
(* JavaScript values are modelled as tagged records so that the dynamic    *)
(* typing the pipeline depends on (undefined, null, NaN, string            *)
(* concatenation by `+`, property-key order of plain objects) is computed  *)
(* the way the runtime computes it.                                        *)
(***************************************************************************)
EXTENDS Integers, Sequences, FiniteSets, TLC

VARIABLES
    donations,        \* prop: Donation[]
    activities,       \* prop: Activity[]
    projects,         \* prop: Project[]
    cases,            \* prop: Case[]
    clients,          \* prop: Client[]        (id -> display name lookup)
    teamMembers,      \* prop: TeamMember[]    (id -> display name lookup)
    timezoneOffset,   \* environment: hours the local time zone is ahead of UTC
    reportMode,       \* useState<ReportMode>
    dataSource,       \* useState<DataSource>
    filters,          \* useState<any>
    groupBy,          \* useState<string>
    metric,           \* useState<string>
    chartType,        \* useState<ChartType>
    rendered,         \* what the last render got from the processedData memo
    aiInsights,       \* Reports: useState('')
    isLoadingInsights,\* Reports: useState(false)
    insightsRequests, \* Reports: generateChartInsights calls awaited by handleGenerateInsights
    activeFilter,     \* ProjectList: useState<FilterGroup | null>
    filteredProjects, \* ProjectList: what the last render got from its memo
    savedFilters,     \* ProjectList: useState<SavedFilter[]>, as the last render saw it
    queuedSavedFilters, \* ProjectList: the value handed to setSavedFilters since that render
    saveCalls,        \* history: the onSaveFilter calls made, in call order
    isOpen,           \* AiChatBot: useState(false)
    messages,         \* AiChatBot: useState<ChatMessage[]>
    userInput,        \* AiChatBot: useState('')
    isLoading,        \* AiChatBot: useState(false)
    chatRequests,     \* AiChatBot: chatWithBot calls awaited by handleSendMessage
    call,             \* geminiService: the call in progress, or its outcome
    activeNoteTaskId, \* ProjectDetail: useState<string | null>
    currentNote,      \* ProjectDetail: useState('')
    taskNotes,        \* ProjectDetail: prop project.tasks[].notes, by task id
    noteUpdates       \* ProjectDetail: the onUpdateTaskNote calls made, in call order

vars == <<donations, activities, projects, cases, clients, teamMembers,
          timezoneOffset, reportMode, dataSource, filters, groupBy, metric,
          chartType, rendered, aiInsights, isLoadingInsights, insightsRequests,
          activeFilter, filteredProjects, savedFilters, queuedSavedFilters,
          saveCalls, isOpen, messages, userInput, isLoading, chatRequests, call,
          activeNoteTaskId, currentNote, taskNotes, noteUpdates>>

\* the state of the project list
listVars == <<activeFilter, filteredProjects>>

\* the state of the Reports view
reportVars == <<reportMode, dataSource, filters, groupBy, metric, chartType, rendered>>

\* the insight text of the Reports view
insightVars == <<aiInsights, isLoadingInsights, insightsRequests>>

\* the saved-filter registry of the project list
savedVars == <<savedFilters, queuedSavedFilters, saveCalls>>

\* the state of the chat bot
chatVars == <<isOpen, messages, userInput, isLoading, chatRequests>>

\* the state of the project detail view
noteVars == <<activeNoteTaskId, currentNote, taskNotes, noteUpdates>>

\* what the Reports view and the filtered project list leave alone
restVars == <<savedVars, chatVars, call, noteVars>>

props == <<donations, activities, projects, cases, clients, teamMembers,
           timezoneOffset>>

-----------------------------------------------------------------------------
(* JavaScript values *)

Undefined == [t |-> "undefined"]
Null      == [t |-> "null"]
NaN       == [t |-> "NaN"]
Str(s)    == [t |-> "string", v |-> s]
\* a number, kept exact: n/d in lowest terms, d > 0
Num(k)    == [t |-> "number", n |-> k, d |-> 1]
\* a string of the form YYYY-MM-DD, given by its three fields
IsoDate(y, m, d) == [t |-> "isodate", y |-> y, m |-> m, d |-> d]
\* an array, of which the pipeline reads only .length
Arr(len)  == [t |-> "array", length |-> len]
\* the TypeError raised by reading a property of undefined or null
TypeError == [t |-> "TypeError"]

\* item[key]
Get(item, key) == IF key \in DOMAIN item THEN item[key] ELSE Undefined

\* ToBoolean
Truthy(x) ==
    CASE x.t = "undefined" -> FALSE
      [] x.t = "null"      -> FALSE
      [] x.t = "NaN"       -> FALSE
      [] x.t = "string"    -> x.v # ""
      [] x.t = "number"    -> x.n # 0
      [] OTHER             -> TRUE

\* a === b
StrictEquals(a, b) == a.t # "NaN" /\ a = b

RECURSIVE Gcd(_, _)
Gcd(a, b) == IF b = 0 THEN a ELSE Gcd(b, a % b)

Abs(x) == IF x < 0 THEN -x ELSE x

Ratio(n, d) ==
    LET g == Gcd(Abs(n), d)
    IN  IF g = 0 THEN Num(0) ELSE [t |-> "number", n |-> n \div g, d |-> d \div g]

\* String(x) for the values that reach `+` in the metric stage
ToStr(x) ==
    CASE x.t = "string"    -> x.v
      [] x.t = "undefined" -> "undefined"
      [] x.t = "null"      -> "null"
      [] x.t = "NaN"       -> "NaN"
      [] x.t = "number"    -> ToString(x.n)
      [] OTHER             -> "[object]"

\* Number(s) of a string: the canonical decimal strings are numbers, the
\* empty string is 0, anything else is NaN
StringToNumber(s) ==
    IF s = "" THEN Num(0)
    ELSE IF \E k \in 0..999 : ToString(k) = s
         THEN Num(CHOOSE k \in 0..999 : ToString(k) = s)
         ELSE NaN

\* ToNumber
ToNumber(x) ==
    CASE x.t = "number"    -> x
      [] x.t = "null"      -> Num(0)
      [] x.t = "string"    -> StringToNumber(x.v)
      [] OTHER             -> NaN

\* a + b: concatenation as soon as one side is a string
JsAdd(a, b) ==
    IF a.t = "string" \/ b.t = "string"
    THEN Str(ToStr(a) \o ToStr(b))
    ELSE LET x == ToNumber(a)
             y == ToNumber(b)
         IN  IF x.t = "NaN" \/ y.t = "NaN" THEN NaN
             ELSE Ratio(x.n * y.d + y.n * x.d, x.d * y.d)

\* a / k for an array length k > 0
JsDiv(a, k) ==
    LET x == ToNumber(a)
    IN  IF x.t = "NaN" THEN NaN ELSE Ratio(x.n, x.d * k)

-----------------------------------------------------------------------------
(* Dates.  The date fields and the date inputs hold YYYY-MM-DD strings,     *)
(* which `new Date` reads as midnight UTC; getFullYear and getMonth answer  *)
(* in local time.                                                           *)

InvalidDate == [valid |-> FALSE]
DateOf(y, m, d) == [valid |-> TRUE, y |-> y, m |-> m, d |-> d]

IsLeapYear(y) == (y % 4 = 0 /\ y % 100 # 0) \/ y % 400 = 0

DaysInMonth(y, m) ==
    IF m = 2 THEN (IF IsLeapYear(y) THEN 29 ELSE 28)
    ELSE IF m \in {4, 6, 9, 11} THEN 30 ELSE 31

\* new Date(x)
NewDate(x) ==
    CASE x.t = "isodate" -> DateOf(x.y, x.m, x.d)
      [] x.t = "null"    -> DateOf(1970, 1, 1)
      [] OTHER           -> InvalidDate

\* an order-preserving number for a midnight-UTC instant
TimeValue(date) == date.y * 372 + (date.m - 1) * 31 + date.d

\* a > b where the filter needs a >= b: the start bound made exclusive
DateGT(a, b) == a.valid /\ b.valid /\ TimeValue(a) > TimeValue(b)

\* a >= b and a <= b on Date objects: false as soon as one is invalid
DateGE(a, b) == a.valid /\ b.valid /\ TimeValue(a) >= TimeValue(b)

DateLE(a, b) == a.valid /\ b.valid /\ TimeValue(a) <= TimeValue(b)

\* the local calendar day of a midnight-UTC instant: the day before in a
\* zone behind UTC, the same day otherwise
LocalDate(date, tz) ==
    IF ~date.valid \/ tz >= 0 THEN date
    ELSE IF date.d > 1 THEN DateOf(date.y, date.m, date.d - 1)
    ELSE IF date.m > 1 THEN DateOf(date.y, date.m - 1, DaysInMonth(date.y, date.m - 1))
    ELSE DateOf(date.y - 1, 12, 31)

\* date.getFullYear() and date.getMonth()
GetFullYear(date, tz) == IF date.valid THEN Num(LocalDate(date, tz).y) ELSE NaN
GetMonth(date, tz)    == IF date.valid THEN Num(LocalDate(date, tz).m - 1) ELSE NaN

\* s.padStart(2, '0')
PadStart2(s) == IF Len(s) < 2 THEN "0" \o s ELSE s

\* `${date.getFullYear()}-${String(date.getMonth() + 1).padStart(2, '0')}`
MonthKey(date, tz) ==
    ToStr(GetFullYear(date, tz)) \o "-"
        \o PadStart2(ToStr(JsAdd(GetMonth(date, tz), Num(1))))

ParseYears == 2023..2025

\* the strings YYYY-MM-02 of the years above, each with its date
SecondOfMonth ==
    LET text(ym) == ToString(ym[1]) \o "-" \o PadStart2(ToString(ym[2])) \o "-02"
        yms == ParseYears \X (1..12)
    IN  [s \in {text(ym) : ym \in yms} |->
            LET ym == CHOOSE x \in yms : text(x) = s IN DateOf(ym[1], ym[2], 2)]

\* new Date(`${name}-02`): the string is a date when it reads YYYY-MM-02
ParseSecondOfMonth(s) ==
    IF s \in DOMAIN SecondOfMonth THEN SecondOfMonth[s] ELSE InvalidDate

ShortMonth == <<"Jan", "Feb", "Mar", "Apr", "May", "Jun",
                "Jul", "Aug", "Sep", "Oct", "Nov", "Dec">>

\* date.toLocaleString('default', { month: 'short', year: 'numeric' }), en-US
ToLocaleMonthYear(date, tz) ==
    IF ~date.valid THEN "Invalid Date"
    ELSE LET l == LocalDate(date, tz)
         IN  ShortMonth[l.m] \o " " \o ToString(l.y)

\* the names the model can produce, in the order of the default collation
\* (digits before letters, letters without regard to case first)
CollationOrder ==
    <<"7", "Acme", "c1", "c3", "Closed", "Dec 2023", "Feb 2024", "Invalid Date",
      "Jan 2024", "Mar 2024", "NaN-NaN", "Open", "tm2", "tm9">>

CollationRank(s) == CHOOSE i \in DOMAIN CollationOrder : CollationOrder[i] = s

\* a.localeCompare(b): negative, zero or positive
LocaleCompare(a, b) == CollationRank(a) - CollationRank(b)

-----------------------------------------------------------------------------
(* The pipeline of processedData *)

DataSources == {"donations", "activities", "projects", "cases"}

\* the switch on dataSource: which collection, and which field dates it
dateKey(ds) ==
    CASE ds = "donations"  -> "donationDate"
      [] ds = "activities" -> "activityDate"
      [] ds = "projects"   -> "startDate"
      [] ds = "cases"      -> "createdAt"

baseData(ds, dons, acts, projs, cs) ==
    CASE ds = "donations"  -> dons
      [] ds = "activities" -> acts
      [] ds = "projects"   -> projs
      [] ds = "cases"      -> cs

\* dateRange?.start and dateRange?.end
RangeStart(f) == IF "dateRange" \in DOMAIN f THEN f["dateRange"].start ELSE Undefined
RangeEnd(f)   == IF "dateRange" \in DOMAIN f THEN f["dateRange"].end ELSE Undefined

\* the callback of baseData.filter
Passes(item, f, dk) ==
    /\ Truthy(RangeStart(f)) => DateGE(NewDate(Get(item, dk)), NewDate(RangeStart(f)))
    /\ Truthy(RangeEnd(f))   => DateLE(NewDate(Get(item, dk)), NewDate(RangeEnd(f)))
    /\ \A key \in DOMAIN f \ {"dateRange"} :
           (Truthy(f[key]) /\ f[key] # Str("all")) => StrictEquals(Get(item, key), f[key])

RECURSIVE SelectSeqBy(_, _, _)
SelectSeqBy(items, f, dk) ==
    IF items = <<>> THEN <<>>
    ELSE LET rest == SelectSeqBy(Tail(items), f, dk)
         IN  IF Passes(Head(items), f, dk) THEN <<Head(items)>> \o rest ELSE rest

filteredData(base, f, dk) == SelectSeqBy(base, f, dk)

\* the key of one record in the reduce
GroupKey(item, gb, dk, tz) ==
    IF gb = "month" THEN Str(MonthKey(NewDate(Get(item, dk)), tz))
    ELSE Get(item, gb)

\* the reduce step without its `if (!acc[key])`: the bucket is started anew
\* for every record
GroupStepOverwrite(acc, item, gb, dk, tz) ==
    LET key == GroupKey(item, gb, dk, tz)
    IN  IF key.t = "undefined" \/ key.t = "null" THEN acc
        ELSE LET pk == ToStr(key)
                 at == {i \in DOMAIN acc : acc[i].key = pk}
             IN  IF at = {}
                 THEN Append(acc, [key |-> pk, name |-> key, items |-> <<item>>])
                 ELSE LET i == CHOOSE j \in at : TRUE
                      IN  [acc EXCEPT ![i].items = <<item>>]

\* one step of the reduce; acc lists the properties of the accumulator
\* object in the order they were created, key being the property name
GroupStep(acc, item, gb, dk, tz) ==
    LET key == GroupKey(item, gb, dk, tz)
    IN  IF key.t = "undefined" \/ key.t = "null" THEN acc
        ELSE LET pk == ToStr(key)
                 at == {i \in DOMAIN acc : acc[i].key = pk}
             IN  IF at = {}
                 THEN Append(acc, [key |-> pk, name |-> key, items |-> <<item>>])
                 ELSE LET i == CHOOSE j \in at : TRUE
                      IN  [acc EXCEPT ![i].items = Append(@, item)]

RECURSIVE Reduce(_, _, _, _, _)
Reduce(acc, items, gb, dk, tz) ==
    IF items = <<>> THEN acc
    ELSE Reduce(GroupStep(acc, Head(items), gb, dk, tz), Tail(items), gb, dk, tz)

grouped(items, gb, dk, tz) == Reduce(<<>>, items, gb, dk, tz)

\* property names that are array indices: the canonical decimal strings
IndexKeys == {ToString(k) : k \in 0..99}
IndexValue == [s \in IndexKeys |-> CHOOSE k \in 0..99 : ToString(k) = s]

\* the final sort with its comparator turned round: b.localeCompare(a)
AfterDescending(a, b, by) ==
    IF by = "index" THEN IndexValue[a.key] > IndexValue[b.key]
    ELSE IF a.name.t = "string" /\ b.name.t = "string"
         THEN LocaleCompare(b.name.v, a.name.v) > 0
         ELSE FALSE

\* is a to come after b: by array index (the order of the index keys of an
\* object), or by the comparator of the final sort
After(a, b, by) ==
    IF by = "index" THEN IndexValue[a.key] > IndexValue[b.key]
    ELSE IF a.name.t = "string" /\ b.name.t = "string"
         THEN LocaleCompare(a.name.v, b.name.v) > 0
         ELSE FALSE

\* stable insertion of x into a sorted sequence
RECURSIVE InsertSorted(_, _, _)
InsertSorted(sorted, x, by) ==
    IF sorted = <<>> THEN <<x>>
    ELSE LET last == sorted[Len(sorted)]
         IN  IF After(last, x, by)
             THEN Append(InsertSorted(SubSeq(sorted, 1, Len(sorted) - 1), x, by), last)
             ELSE Append(sorted, x)

\* Array.prototype.sort: stable
RECURSIVE StableSort(_, _)
StableSort(s, by) ==
    IF s = <<>> THEN <<>>
    ELSE InsertSorted(StableSort(SubSeq(s, 1, Len(s) - 1), by), s[Len(s)], by)

IsIndexKey(g) == g.key \in IndexKeys
IsNamedKey(g) == g.key \notin IndexKeys

\* Object.values(acc): array-index keys first, in ascending numeric order,
\* then the other keys in the order they were created
ObjectValues(acc) ==
    StableSort(SelectSeq(acc, IsIndexKey), "index") \o SelectSeq(acc, IsNamedKey)

\* the reducer assigning where it is to accumulate: sum = i.amount
RECURSIVE SumAmountLast(_, _)
SumAmountLast(sum, items) ==
    IF items = <<>> THEN sum
    ELSE SumAmountLast(Get(Head(items), "amount"), Tail(items))

\* group.items.reduce((sum, i) => sum + i.amount, 0)
RECURSIVE SumAmount(_, _)
SumAmount(sum, items) ==
    IF items = <<>> THEN sum
    ELSE SumAmount(JsAdd(sum, Get(Head(items), "amount")), Tail(items))

\* i.tasks.length
TasksLength(item) ==
    LET tasks == Get(item, "tasks")
    IN  CASE tasks.t \in {"undefined", "null"} -> TypeError
          [] tasks.t = "array"                 -> Num(tasks.length)
          [] OTHER                             -> Undefined

\* group.items.reduce((sum, i) => sum + i.tasks.length, 0)
RECURSIVE SumTasks(_, _)
SumTasks(sum, items) ==
    IF items = <<>> THEN sum
    ELSE LET n == TasksLength(Head(items))
         IN  IF n.t = "TypeError" THEN TypeError
             ELSE SumTasks(JsAdd(sum, n), Tail(items))

\* the switch on metric with the break of its first case missing, so that
\* 'count' falls through to 'totalAmount'
MetricValueFallThrough(items, m) ==
    CASE m \in {"count", "totalAmount"} -> SumAmount(Num(0), items)
      [] m = "avgAmount"   -> IF Len(items) > 0
                              THEN JsDiv(SumAmount(Num(0), items), Len(items))
                              ELSE Num(0)
      [] m = "taskCount"   -> SumTasks(Num(0), items)
      [] OTHER             -> Num(Len(items))

\* the switch on metric with 'avgAmount' sharing the body of 'totalAmount'
MetricValueAvgShared(items, m) ==
    CASE m = "count"       -> Num(Len(items))
      [] m \in {"totalAmount", "avgAmount"} -> SumAmount(Num(0), items)
      [] m = "taskCount"   -> SumTasks(Num(0), items)
      [] OTHER             -> Num(Len(items))

\* the switch on metric without its default branch: value keeps its initial 0
MetricValueNoDefault(items, m) ==
    CASE m = "count"       -> Num(Len(items))
      [] m = "totalAmount" -> SumAmount(Num(0), items)
      [] m = "avgAmount"   -> IF Len(items) > 0
                              THEN JsDiv(SumAmount(Num(0), items), Len(items))
                              ELSE Num(0)
      [] m = "taskCount"   -> SumTasks(Num(0), items)
      [] OTHER             -> Num(0)

\* the switch on metric
MetricValue(items, m) ==
    CASE m = "count"       -> Num(Len(items))
      [] m = "totalAmount" -> SumAmount(Num(0), items)
      [] m = "avgAmount"   -> IF Len(items) > 0
                              THEN JsDiv(SumAmount(Num(0), items), Len(items))
                              ELSE Num(0)
      [] m = "taskCount"   -> SumTasks(Num(0), items)
      [] OTHER             -> Num(Len(items))

\* the lookup with a blank in place of the raw key: ?.name || ''
LookupNameOrBlank(list, name) ==
    LET hits == {i \in DOMAIN list : StrictEquals(list[i].id, name)}
    IN  IF hits = {} THEN Str("")
        ELSE LET found == list[CHOOSE i \in hits : \A j \in hits : i <= j].name
             IN  IF Truthy(found) THEN found ELSE Str("")

\* list.find(x => x.id === name)?.name || name
LookupName(list, name) ==
    LET hits == {i \in DOMAIN list : StrictEquals(list[i].id, name)}
    IN  IF hits = {} THEN name
        ELSE LET found == list[CHOOSE i \in hits : \A j \in hits : i <= j].name
             IN  IF Truthy(found) THEN found ELSE name

\* the display name of a group
Label(name, gb, cl, tm, tz) ==
    LET n1 == IF gb = "clientId" THEN LookupName(cl, name) ELSE name
        n2 == IF gb \in {"createdById", "assignedToId"} THEN LookupName(tm, n1) ELSE n1
    IN  IF gb = "month"
        THEN Str(ToLocaleMonthYear(ParseSecondOfMonth(ToStr(n2) \o "-02"), tz))
        ELSE n2

\* the map over Object.values(grouped)
Points(groups, gb, m, cl, tm, tz) ==
    [i \in DOMAIN groups |->
        [name  |-> Label(groups[i].name, gb, cl, tm, tz),
         value |-> MetricValue(groups[i].items, m)]]

\* Array.prototype.reverse
Reverse(s) == [i \in DOMAIN s |-> s[Len(s) + 1 - i]]

\* the objects handed to the memo, by the name it knows them under
InputCells ==
    {"donations", "activities", "projects", "cases", "filters", "clients", "teamMembers"}

\* the memo with the base collection reversed in place before it is
\* filtered: baseData.reverse().filter(...)
memoStoreReversesBase(mode, ds, f, gb, m, dons, acts, projs, cs, cl, tm, tz) ==
    LET s0 == [donations |-> dons, activities |-> acts, projects |-> projs,
               cases |-> cs, filters |-> f, clients |-> cl, teamMembers |-> tm]
    IN  IF mode # "database" THEN s0
        ELSE LET dk == dateKey(ds)
                 s1 == [s0 EXCEPT ![ds] = Reverse(@)]
             IN  [filteredData |-> filteredData(s1[ds], s1["filters"], dk)] @@ s1

\* the objects the memo reads and writes, as it leaves them. baseData is the
\* collection of the data source itself, not a copy; filter, the object of
\* reduce with its items arrays, Object.values and map each make a new
\* object, and push and sort write to these new objects only.
memoStore(mode, ds, f, gb, m, dons, acts, projs, cs, cl, tm, tz) ==
    LET s0 == [donations |-> dons, activities |-> acts, projects |-> projs,
               cases |-> cs, filters |-> f, clients |-> cl, teamMembers |-> tm]
    IN  IF mode # "database" THEN s0
        ELSE LET dk == dateKey(ds)
                 s1 == [filteredData |-> filteredData(s0[ds], s0["filters"], dk)] @@ s0
             IN  IF gb = "" THEN s1
                 ELSE LET s2 == [grouped |-> grouped(s1["filteredData"], gb, dk, tz)] @@ s1
                          s3 == [points |-> Points(ObjectValues(s2["grouped"]), gb, m,
                                                   s2["clients"], s2["teamMembers"], tz)] @@ s2
                      IN  IF \E i \in DOMAIN s3["points"] : s3["points"][i].value.t = "TypeError"
                          THEN s2
                          ELSE [s3 EXCEPT !["points"] = StableSort(@, "name")]

\* the memo with a default grouping in place of the early return:
\* const by = groupBy || 'month'
processedDataDefaultGroup(mode, ds, f, gb, m, dons, acts, projs, cs, cl, tm, tz) ==
    IF mode # "database" THEN [threw |-> FALSE, points |-> <<>>]
    ELSE LET by == IF gb = "" THEN "month" ELSE gb
             dk == dateKey(ds)
             kept == filteredData(baseData(ds, dons, acts, projs, cs), f, dk)
             pts == Points(ObjectValues(grouped(kept, by, dk, tz)), by, m, cl, tm, tz)
         IN  IF \E i \in DOMAIN pts : pts[i].value.t = "TypeError"
             THEN [threw |-> TRUE, points |-> <<>>]
             ELSE [threw |-> FALSE, points |-> StableSort(pts, "name")]

\* the memo: threw tells whether the computation raised, points is the list
processedData(mode, ds, f, gb, m, dons, acts, projs, cs, cl, tm, tz) ==
    IF mode # "database" THEN [threw |-> FALSE, points |-> <<>>]
    ELSE IF gb = "" THEN [threw |-> FALSE, points |-> <<>>]
    ELSE LET dk == dateKey(ds)
             kept == filteredData(baseData(ds, dons, acts, projs, cs), f, dk)
             pts == Points(ObjectValues(grouped(kept, gb, dk, tz)), gb, m, cl, tm, tz)
         IN  IF \E i \in DOMAIN pts : pts[i].value.t = "TypeError"
             THEN [threw |-> TRUE, points |-> <<>>]
             ELSE [threw |-> FALSE, points |-> StableSort(pts, "name")]

-----------------------------------------------------------------------------
(* The option tables of the builder *)

groupOptions(ds) ==
    CASE ds = "donations"  -> <<"campaign", "clientId", "month">>
      [] ds = "activities" -> <<"type", "createdById", "clientId", "month">>
      [] ds = "projects"   -> <<"status", "clientId">>
      [] ds = "cases"      -> <<"status", "priority", "assignedToId", "month">>

metricOptions(ds) ==
    CASE ds = "donations"  -> <<"totalAmount", "count", "avgAmount">>
      [] ds = "activities" -> <<"count">>
      [] ds = "projects"   -> <<"count", "taskCount">>
      [] ds = "cases"      -> <<"count">>

\* the last option in place of the first
LastOption(options) == IF options = <<>> THEN "" ELSE options[Len(options)]

\* options[0]?.value || ''
FirstOption(options) == IF options = <<>> THEN "" ELSE options[1]

\* groupBy === 'month' ? 'line' : 'bar'
ChartFor(gb) == IF gb = "month" THEN "line" ELSE "bar"

\* the reset effect alone: setChartType(groupBy === 'month' ? 'line' : 'bar')
\* with the groupBy of the render the effect belongs to, the one before the
\* reset
chartTypeResetOnly(before, after) == ChartFor(before)

\* chartType once the effects of a data-source change are done: the reset
\* effect sets it from the groupBy of its render, and the [groupBy] effect of
\* the next render sets it again when the reset changed groupBy
chartTypeAfterReset(before, after) ==
    IF after # before THEN ChartFor(after) ELSE ChartFor(before)

NoFilters == [dateRange |-> [start |-> Str(""), end |-> Str("")]]

\* the project list while the Reports view is the one on screen
ListUnmounted ==
    /\ activeFilter = Null
    /\ filteredProjects = [threw |-> FALSE, items |-> <<>>]

\* no insight asked for
InsightsIdle ==
    /\ aiInsights = ""
    /\ isLoadingInsights = FALSE
    /\ insightsRequests = <<>>

\* nothing saved in the registry of the project list
SavedIdle ==
    /\ savedFilters = <<>>
    /\ queuedSavedFilters = <<>>
    /\ saveCalls = <<>>

\* the chat bot as constructed, before its greeting is answered
ChatIdle ==
    /\ isOpen = FALSE
    /\ messages = <<>>
    /\ userInput = <<>>
    /\ isLoading = FALSE
    /\ chatRequests = <<>>

\* no service call made
ServiceIdle == call = [pc |-> "idle"]

\* the project detail view not on screen
NotesIdle ==
    /\ activeNoteTaskId = Null
    /\ currentNote = ""
    /\ taskNotes = <<>>
    /\ noteUpdates = <<>>

-----------------------------------------------------------------------------
(* The inputs *)

MaxRecords == 2

\* the records a collection is drawn from; "date" stands for the date field
\* of the collection the record is put in
RecordPool ==
    { [date |-> IsoDate(2024, 1, 15), status |-> Str("Open"), clientId |-> Str("c1"),
       amount |-> Num(100), tasks |-> Arr(2), assignedToId |-> Str("tm1")],
      [date |-> IsoDate(2024, 1, 31), status |-> Str("Open"), clientId |-> Str("7"),
       amount |-> Num(300), tasks |-> Arr(1), assignedToId |-> Str("tm2")],
      [date |-> IsoDate(2024, 2, 1), status |-> Str("Closed"), clientId |-> Str("c3"),
       amount |-> Str("n/a"), assignedToId |-> Str("tm9")],
      [clientId |-> Null] }

\* the worked example of the reporting pipeline
SampleRecords ==
    << [status |-> Str("Open"), amount |-> Num(100), date |-> IsoDate(2024, 1, 5)],
       [status |-> Str("Open"), amount |-> Num(50), date |-> IsoDate(2024, 2, 10)],
       [status |-> Str("Closed"), amount |-> Num(200), date |-> IsoDate(2024, 1, 20)] >>

Collections ==
    UNION {[1..n -> RecordPool] : n \in 0..MaxRecords} \cup {SampleRecords}

\* a record with its date stored under the date field dk
WithDateKey(rec, dk) ==
    [k \in (DOMAIN rec \ {"date"}) \cup (IF "date" \in DOMAIN rec THEN {dk} ELSE {}) |->
        IF k = dk THEN rec["date"] ELSE rec[k]]

Collection(recs, ds) == [i \in DOMAIN recs |-> WithDateKey(recs[i], dateKey(ds))]

ClientList ==
    << [id |-> Str("c1"), name |-> Str("Acme")],
       [id |-> Str("7"),  name |-> Str("Acme")] >>

TeamMemberList ==
    << [id |-> Str("tm1"), name |-> Str("Open")],
       [id |-> Str("tm2"), name |-> Str("")] >>

\* a client list with a client whose name is blank
ClientListBlankName ==
    << [id |-> Str("c1"), name |-> Str("")],
       [id |-> Str("7"),  name |-> Str("Acme")] >>

ClientLists == {ClientList, ClientListBlankName}

TimezoneOffsets == {-5, 0}

GroupByInputs == {"", "status", "clientId", "month"}
MetricInputs  == {"", "count", "totalAmount", "avgAmount", "taskCount"}
StartInputs   == {Str(""), IsoDate(2024, 1, 31)}
EndInputs     == {Str(""), IsoDate(2024, 2, 1)}
StatusInputs  == {Str("all"), Str("Open")}

\* the selectors the pipeline is run on as a function: any field name to
\* group by, any metric name
GroupBySelectors == GroupByInputs \cup {"assignedToId"}
MetricSelectors  == MetricInputs \cup {"median"}

-----------------------------------------------------------------------------
(* The component *)

\* the memo as a render with the given state computes it
Render(ds, f, gb, m) ==
    processedData(reportMode, ds, f, gb, m, donations, activities, projects, cases,
                  clients, teamMembers, timezoneOffset)

\* a render that raises unmounts the component
Mounted == ~rendered.threw

Init ==
    /\ \E recs \in Collections :
        /\ donations  = Collection(recs, "donations")
        /\ activities = Collection(recs, "activities")
        /\ projects   = Collection(recs, "projects")
        /\ cases      = Collection(recs, "cases")
    /\ clients = ClientList
    /\ teamMembers = TeamMemberList
    /\ timezoneOffset \in TimezoneOffsets
    /\ reportMode = "database"
    /\ dataSource = "donations"
    /\ filters = NoFilters
    /\ groupBy = FirstOption(groupOptions("donations"))
    /\ metric = FirstOption(metricOptions("donations"))
    /\ chartType = ChartFor(groupBy)
    /\ rendered = Render(dataSource, filters, groupBy, metric)
    /\ InsightsIdle
    /\ ListUnmounted
    /\ SavedIdle /\ ChatIdle /\ ServiceIdle /\ NotesIdle

\* onChange of the Data Source select, the render it causes, and the reset
\* effect with the render that follows it
setDataSource(ds) ==
    /\ Mounted
    /\ ds # dataSource
    /\ dataSource' = ds
    /\ LET stale == Render(ds, filters, groupBy, metric)
       IN  IF stale.threw
           THEN /\ rendered' = stale
                /\ UNCHANGED <<filters, groupBy, metric, chartType>>
           ELSE /\ filters' = NoFilters
                /\ groupBy' = FirstOption(groupOptions(ds))
                /\ metric' = FirstOption(metricOptions(ds))
                /\ chartType' = chartTypeAfterReset(groupBy, groupBy')
                /\ rendered' = Render(ds, filters', groupBy', metric')
    /\ aiInsights' = IF rendered'.threw THEN aiInsights ELSE ""
    /\ UNCHANGED <<isLoadingInsights, insightsRequests>>
    /\ UNCHANGED <<props, reportMode>>
    /\ UNCHANGED <<listVars, restVars>>

\* onChange of the Group By select, the render, and the chart-type effect
setGroupBy(v) ==
    /\ Mounted
    /\ v # groupBy
    /\ groupBy' = v
    /\ rendered' = Render(dataSource, filters, v, metric)
    /\ chartType' = IF rendered'.threw THEN chartType ELSE ChartFor(v)
    /\ UNCHANGED <<props, reportMode, dataSource, filters, metric>>
    /\ UNCHANGED <<insightVars, listVars, restVars>>

\* onChange of the Metric select and the render
setMetric(v) ==
    /\ Mounted
    /\ v # metric
    /\ metric' = v
    /\ rendered' = Render(dataSource, filters, groupBy, v)
    /\ UNCHANGED <<props, reportMode, dataSource, filters, groupBy, chartType>>
    /\ UNCHANGED <<insightVars, listVars, restVars>>

\* setFilters(prev => ({ ...prev, [key]: value })) and the render
handleFilterChange(key, value) ==
    /\ Mounted
    /\ filters' = [k \in DOMAIN filters \cup {key} |->
                      IF k = key THEN value ELSE filters[k]]
    /\ filters' # filters
    /\ rendered' = Render(dataSource, filters', groupBy, metric)
    /\ UNCHANGED <<props, reportMode, dataSource, groupBy, metric, chartType>>
    /\ UNCHANGED <<insightVars, listVars, restVars>>

\* the two date inputs of DateRangeFilter
ChangeStart(v) == handleFilterChange("dateRange", [filters["dateRange"] EXCEPT !.start = v])
ChangeEnd(v)   == handleFilterChange("dateRange", [filters["dateRange"] EXCEPT !.end = v])

\* a select filter
ChangeSelect(key, v) == handleFilterChange(key, v)

Next ==
    \/ \E ds \in DataSources : setDataSource(ds)
    \/ \E v \in GroupByInputs : setGroupBy(v)
    \/ \E v \in MetricInputs : setMetric(v)
    \/ \E v \in StartInputs : ChangeStart(v)
    \/ \E v \in EndInputs : ChangeEnd(v)
    \/ \E v \in StatusInputs : ChangeSelect("status", v)

Spec == Init /\ [][Next]_vars

\* The pipeline as a function of its inputs: any collection, either lookup
\* list, donations or cases as the source, no filter, and every group and
\* metric selector.
InitPipeline ==
    /\ \E recs \in Collections :
        /\ donations  = Collection(recs, "donations")
        /\ activities = Collection(recs, "activities")
        /\ projects   = Collection(recs, "projects")
        /\ cases      = Collection(recs, "cases")
    /\ clients \in ClientLists
    /\ teamMembers = TeamMemberList
    /\ timezoneOffset \in TimezoneOffsets
    /\ reportMode = "database"
    /\ dataSource \in {"donations", "cases"}
    /\ filters = NoFilters
    /\ groupBy = FirstOption(groupOptions(dataSource))
    /\ metric = FirstOption(metricOptions(dataSource))
    /\ chartType = ChartFor(groupBy)
    /\ rendered = Render(dataSource, filters, groupBy, metric)
    /\ InsightsIdle
    /\ ListUnmounted
    /\ SavedIdle /\ ChatIdle /\ ServiceIdle /\ NotesIdle

NextPipeline ==
    \/ \E v \in GroupBySelectors : setGroupBy(v)
    \/ \E v \in MetricSelectors : setMetric(v)

SpecPipeline == InitPipeline /\ [][NextPipeline]_vars

-----------------------------------------------------------------------------
(* The filter predicate engine: applyFilterLogic of ./filters/filterLogic *)

\* the operators of a FilterCondition
KnownOperators ==
    {"equals", "notEquals", "contains", "greaterThan", "lessThan", "before",
     "after", "isEmpty", "isNotEmpty"}

IsGroup(node) == "combinator" \in DOMAIN node

\* a leaf on a record, raising on an operator that is not known
evaluateConditionThrows(record, cond) ==
    LET x == Get(record, cond.field)
    IN  [threw |-> cond.operator \notin KnownOperators,
         val   |-> CASE cond.operator = "equals"    -> x = cond.value
                     [] cond.operator = "notEquals" -> x # cond.value
                     [] cond.operator = "isEmpty"   -> x \in {Undefined, Null, Str("")}
                     [] OTHER                       -> FALSE]

\* a leaf on a record; an operator that is not known is a non-match
evaluateCondition(record, cond) ==
    LET x == Get(record, cond.field)
    IN  [threw |-> FALSE,
         val   |-> CASE cond.operator = "equals"    -> x = cond.value
                     [] cond.operator = "notEquals" -> x # cond.value
                     [] cond.operator = "isEmpty"   -> x \in {Undefined, Null, Str("")}
                     [] OTHER                       -> FALSE]

\* a group without children matching nothing
EmptyGroupNone(combinator) == FALSE

\* a group without children
EmptyGroupValue(combinator) == TRUE

RECURSIVE evaluate(_, _)
RECURSIVE evalChildren(_, _, _)
RECURSIVE evalChildrenAll(_, _, _)

\* every child of a group evaluated, whatever the earlier ones gave
evalChildrenAll(record, combinator, children) ==
    LET first == evaluate(record, Head(children))
    IN  IF first.threw THEN first
        ELSE IF Tail(children) = <<>> THEN first
        ELSE LET rest == evalChildrenAll(record, combinator, Tail(children))
             IN  [threw |-> rest.threw,
                  val   |-> IF combinator = "OR" THEN first.val \/ rest.val
                            ELSE first.val /\ rest.val,
                  trace |-> first.trace \o rest.trace]

\* the children of a group from left to right, up to the first false child
\* of an AND or the first true child of an OR
evalChildren(record, combinator, children) ==
    LET first == evaluate(record, Head(children))
    IN  IF first.threw THEN first
        ELSE IF first.val = (combinator = "OR") THEN first
        ELSE IF Tail(children) = <<>> THEN first
        ELSE LET rest == evalChildren(record, combinator, Tail(children))
             IN  [rest EXCEPT !.trace = first.trace \o @]

\* evaluate(record, node): val is the verdict, trace the leaves evaluated,
\* in the order they were
evaluate(record, node) ==
    IF ~IsGroup(node)
    THEN LET leaf == evaluateCondition(record, node)
         IN  [threw |-> leaf.threw, val |-> leaf.val, trace |-> <<node>>]
    ELSE IF node.conditions = <<>>
    THEN [threw |-> FALSE, val |-> EmptyGroupValue(node.combinator), trace |-> <<>>]
    ELSE evalChildren(record, node.combinator, node.conditions)

\* the records that evaluate to true, taken in order
RECURSIVE applyRecords(_, _)
applyRecords(records, group) ==
    IF records = <<>> THEN [threw |-> FALSE, items |-> <<>>]
    ELSE LET e == evaluate(Head(records), group)
         IN  IF e.threw THEN [threw |-> TRUE, items |-> <<>>]
             ELSE LET rest == applyRecords(Tail(records), group)
                  IN  IF rest.threw THEN rest
                      ELSE [rest EXCEPT !.items =
                               (IF e.val THEN <<Head(records)>> ELSE <<>>) \o @]

\* applyFilterLogic without the test for an absent group
applyFilterLogicNoNullTest(records, group) ==
    IF group = Null THEN [threw |-> FALSE, items |-> <<>>]
    ELSE applyRecords(records, group)

\* applyFilterLogic(records, group): no group, no filter
applyFilterLogic(records, group) ==
    IF group = Null THEN [threw |-> FALSE, items |-> records]
    ELSE applyRecords(records, group)

-----------------------------------------------------------------------------
(* The project list *)

\* the memo without the active filter: applyFilterLogic(projects, null)
filteredProjectsMemoNoFilter(projs, group) == applyFilterLogic(projs, Null)

\* useMemo(() => applyFilterLogic(projects, activeFilter), [projects, activeFilter])
filteredProjectsMemo(projs, group) == applyFilterLogic(projs, group)

ProjectPool ==
    { [id |-> Str("p1"), name |-> Str("Alpha"), status |-> Str("Planning"),
       endDate |-> IsoDate(2024, 1, 31)],
      [id |-> Str("p2"), name |-> Str("Beta"), status |-> Str("Completed")] }

ProjectCollections == UNION {[1..n -> ProjectPool] : n \in 0..MaxRecords}

\* conditions on the fields of filterConfigs, one with an operator that is
\* not one of the known ones
Conditions ==
    { [field |-> "status", operator |-> "equals", value |-> Str("Planning")],
      [field |-> "name", operator |-> "equals", value |-> Str("Beta")],
      [field |-> "status", operator |-> "matches", value |-> Str("Planning")] }

Combinators == {"AND", "OR"}

MaxChildren == 2

\* the groups a group is given as children
InnerGroups ==
    { [combinator |-> "OR", conditions |-> <<>>],
      [combinator |-> "AND",
       conditions |-> << [field |-> "status", operator |-> "equals", value |-> Str("Planning")],
                         [field |-> "status", operator |-> "matches", value |-> Str("Planning")] >>],
      [combinator |-> "OR",
       conditions |-> << [field |-> "status", operator |-> "matches", value |-> Str("Planning")],
                         [field |-> "name", operator |-> "equals", value |-> Str("Beta")] >>] }

FilterGroups ==
    { [combinator |-> c, conditions |-> l] :
        c \in Combinators,
        l \in UNION {[1..n -> Conditions \cup InnerGroups] : n \in 0..MaxChildren} }

\* the Reports view while the project list is the one on screen
ReportsUnmounted ==
    /\ donations = <<>> /\ activities = <<>> /\ cases = <<>>
    /\ clients = ClientList
    /\ teamMembers = TeamMemberList
    /\ timezoneOffset = 0
    /\ reportMode = "database"
    /\ dataSource = "donations"
    /\ filters = NoFilters
    /\ groupBy = ""
    /\ metric = ""
    /\ chartType = "bar"
    /\ rendered = [threw |-> FALSE, points |-> <<>>]
    /\ InsightsIdle

InitList ==
    /\ projects \in ProjectCollections
    /\ ReportsUnmounted
    /\ activeFilter = Null
    /\ filteredProjects = filteredProjectsMemo(projects, activeFilter)
    /\ SavedIdle /\ ChatIdle /\ ServiceIdle /\ NotesIdle

\* onApplyFilters={setActiveFilter} and the render
setActiveFilter(group) ==
    /\ ~filteredProjects.threw
    /\ group # activeFilter
    /\ activeFilter' = group
    /\ filteredProjects' = filteredProjectsMemo(projects, group)
    /\ UNCHANGED <<props, reportVars, insightVars, restVars>>

NextList == \E group \in FilterGroups \cup {Null} : setActiveFilter(group)

SpecList == InitList /\ [][NextList]_vars

-----------------------------------------------------------------------------
(* The stages of the pipeline on the current state *)

curDateKey == dateKey(dataSource)
curBase    == baseData(dataSource, donations, activities, projects, cases)
curKept    == filteredData(curBase, filters, curDateKey)
curGroups  == grouped(curKept, groupBy, curDateKey, timezoneOffset)

Pt(name, n) == [name |-> Str(name), value |-> Num(n)]

Range(seq) == {seq[i] : i \in DOMAIN seq}

\* the number of places of seq that hold x
Occurrences(seq, x) == Cardinality({i \in DOMAIN seq : seq[i] = x})

\* a <= b for two YYYY-MM-DD strings, field by field
IsoLE(a, b) ==
    \/ a.y < b.y
    \/ a.y = b.y /\ a.m < b.m
    \/ a.y = b.y /\ a.m = b.m /\ a.d <= b.d

\* the worked example: the three sample records, status = 'Open', by month,
\* total amount
SampleState ==
    /\ donations = Collection(SampleRecords, "donations")
    /\ filters = [dateRange |-> [start |-> Str(""), end |-> Str("")],
                  status |-> Str("Open")]
    /\ groupBy = "month"
    /\ metric = "totalAmount"

-----------------------------------------------------------------------------
(* C1 *)

\* C1, as amended: on the worked example the pipeline returns the two points
\* Feb 2024 = 50 and Jan 2024 = 100, in the order of their names, Feb first.
C1_SampleSortedByName ==
    SampleState =>
        rendered = [threw |-> FALSE,
                    points |-> <<Pt("Feb 2024", 50), Pt("Jan 2024", 100)>>]

\* C1, as stated: on the worked example the pipeline returns Jan 2024 = 100
\* followed by Feb 2024 = 50.
C1_SampleAsStated ==
    SampleState =>
        rendered = [threw |-> FALSE,
                    points |-> <<Pt("Jan 2024", 100), Pt("Feb 2024", 50)>>]

C1_SampleRendered == SampleState /\ Len(rendered.points) = 2

-----------------------------------------------------------------------------
(* C2 *)

\* what the filter stage is to keep: the date within the set bounds, both
\* inclusive, and every select filter other than 'all' matched exactly
ClaimKeeps(item) ==
    LET d == Get(item, curDateKey)
        s == filters["dateRange"].start
        e == filters["dateRange"].end
    IN  /\ s # Str("") => d.t = "isodate" /\ IsoLE(s, d)
        /\ e # Str("") => d.t = "isodate" /\ IsoLE(d, e)
        /\ \A key \in DOMAIN filters \ {"dateRange"} :
               filters[key] # Str("all") => Get(item, key) = filters[key]

\* C2: the filter stage keeps exactly the records within the inclusive date
\* bounds that are set and equal to every select filter that is not 'all',
\* in their order.
C2_FilterStage == curKept = SelectSeq(curBase, ClaimKeeps)

\* both bounds and a select filter set, a record on the start bound kept and
\* another record dropped
C2_FilterBites ==
    /\ filters["dateRange"].start # Str("")
    /\ filters["dateRange"].end # Str("")
    /\ "status" \in DOMAIN filters /\ filters["status"] = Str("Open")
    /\ Len(curKept) < Len(curBase)
    /\ \E i \in DOMAIN curKept : Get(curKept[i], curDateKey) = filters["dateRange"].start

-----------------------------------------------------------------------------
(* C3 *)

\* C3: with no groupBy the pipeline returns the empty list, whatever the
\* records, the filters and the metric.
C3_NoGroupByNoPoints == groupBy = "" => rendered = [threw |-> FALSE, points |-> <<>>]

C3_NoGroupByWithData == groupBy = "" /\ metric # "" /\ Len(curKept) = 2

-----------------------------------------------------------------------------
(* C4 *)

\* C4: with no metric the pipeline returns the empty list.
C4_NoMetricNoPoints == metric = "" => rendered.points = <<>>

-----------------------------------------------------------------------------
(* C5 *)

\* the zero-padded YYYY-MM of a date string
CalendarMonth(d) ==
    ToString(d.y) \o (IF d.m < 10 THEN "-0" ELSE "-") \o ToString(d.m)

\* the bucket a kept record was put in, 0 when in none
BucketOf(item) ==
    LET at == {i \in DOMAIN curGroups : item \in Range(curGroups[i].items)}
    IN  IF at = {} THEN 0 ELSE CHOOSE i \in at : TRUE

Dated(item) == Get(item, curDateKey).t = "isodate"

\* C5: grouped by month, two dated records share a bucket exactly when their
\* dates have the same year and month, and the key of a bucket is the
\* YYYY-MM of the dates in it.
C5_MonthBuckets ==
    groupBy = "month" =>
        /\ \A a \in Range(curKept), b \in Range(curKept) :
               (Dated(a) /\ Dated(b)) =>
                   ((BucketOf(a) = BucketOf(b)) <=>
                        (CalendarMonth(Get(a, curDateKey)) = CalendarMonth(Get(b, curDateKey))))
        /\ \A a \in Range(curKept) :
               Dated(a) => (BucketOf(a) > 0 /\
                            curGroups[BucketOf(a)].key = CalendarMonth(Get(a, curDateKey)))

-----------------------------------------------------------------------------
(* C6 *)

\* the value a record is grouped on is there: for 'month' its date field
HasGroupValue(item) ==
    Get(item, IF groupBy = "month" THEN curDateKey ELSE groupBy).t
        \notin {"undefined", "null"}

\* C6: a record without a grouping value is in no bucket.
C6_NoValueNoBucket ==
    groupBy # "" =>
        \A i \in DOMAIN curGroups : \A j \in DOMAIN curGroups[i].items :
            HasGroupValue(curGroups[i].items[j])

-----------------------------------------------------------------------------
(* C7 *)

\* the sum of the amounts that are numbers
RECURSIVE NumericSum(_)
NumericSum(items) ==
    IF items = <<>> THEN 0
    ELSE (IF Get(Head(items), "amount").t = "number" THEN Get(Head(items), "amount").n ELSE 0)
             + NumericSum(Tail(items))

\* C7: totalAmount and avgAmount of a bucket are numbers, the sum and the
\* mean with every missing or non-numeric amount counted as 0.
C7_AmountsGuarded ==
    (groupBy # "" /\ metric \in {"totalAmount", "avgAmount"}) =>
        /\ \A i \in DOMAIN rendered.points : rendered.points[i].value.t = "number"
        /\ \A i \in DOMAIN curGroups :
               MetricValue(curGroups[i].items, metric) =
                   IF metric = "totalAmount"
                   THEN Num(NumericSum(curGroups[i].items))
                   ELSE Ratio(NumericSum(curGroups[i].items), Len(curGroups[i].items))

-----------------------------------------------------------------------------
(* C8 *)

\* C8: no render of the pipeline raises.
C8_NeverThrows == ~rendered.threw

-----------------------------------------------------------------------------
(* C9 *)

\* the points in the order their group keys were first met
EncounterPoints ==
    Points(curGroups, groupBy, metric, clients, teamMembers, timezoneOffset)

\* pts taken name by name in ascending order, each name's points in the
\* order they have in pts
RECURSIVE ByName(_, _)
ByName(pts, k) ==
    IF k > Len(CollationOrder) THEN <<>>
    ELSE SelectSeq(pts, LAMBDA p : p.name = Str(CollationOrder[k])) \o ByName(pts, k + 1)

\* C9: when all names are strings the list is in ascending order of name,
\* and points of equal name are in the order their keys were first met.
C9_SortedTiesByEncounter ==
    (groupBy # "" /\ ~rendered.threw
        /\ \A i \in DOMAIN rendered.points : rendered.points[i].name.t = "string")
    => rendered.points = ByName(EncounterPoints, 1)

-----------------------------------------------------------------------------
(* C10 *)

\* the distinct grouping values of the kept records
KeptKeys ==
    {GroupKey(curKept[i], groupBy, curDateKey, timezoneOffset) : i \in DOMAIN curKept}
        \ {Undefined, Null}

\* the number of kept records grouped on k
KeptWithKey(k) ==
    Cardinality({i \in DOMAIN curKept :
                    GroupKey(curKept[i], groupBy, curDateKey, timezoneOffset) = k})

CountPoint(k) ==
    [name  |-> Label(k, groupBy, clients, teamMembers, timezoneOffset),
     value |-> Num(KeptWithKey(k))]

\* C10: with metric 'count' there is one point for each grouping value, and
\* its value is the number of kept records with that value.
C10_CountIsBucketSize ==
    (groupBy # "" /\ metric = "count") =>
        /\ ~rendered.threw
        /\ Len(rendered.points) = Cardinality(KeptKeys)
        /\ \A k \in KeptKeys :
               Occurrences(rendered.points, CountPoint(k))
                   = Cardinality({j \in KeptKeys : CountPoint(j) = CountPoint(k)})

\* grouped by status and counted: two buckets, one of them holding a record
\* whose amount is not a number
C10_CountOverAnyContent ==
    /\ groupBy = "status" /\ metric = "count"
    /\ Len(rendered.points) = 2
    /\ \E i \in DOMAIN curKept : Get(curKept[i], "amount").t = "string"

-----------------------------------------------------------------------------
(* C11 *)

\* the kept records grouped on k, in their order
KeptOf(k) ==
    SelectSeq(curKept,
              LAMBDA r : GroupKey(r, groupBy, curDateKey, timezoneOffset) = k)

\* every record grouped on k has an integer amount
IntegerAmounts(k) ==
    \A i \in DOMAIN KeptOf(k) :
        LET a == Get(KeptOf(k)[i], "amount") IN a.t = "number" /\ a.d = 1

TotalPoint(k) ==
    [name  |-> Label(k, groupBy, clients, teamMembers, timezoneOffset),
     value |-> Num(NumericSum(KeptOf(k)))]

\* C11: with metric 'totalAmount', the point of every bucket of records with
\* integer amounts has the sum of those amounts as its value.
C11_TotalIsSum ==
    (groupBy # "" /\ metric = "totalAmount") =>
        /\ ~rendered.threw
        /\ Len(rendered.points) = Cardinality(KeptKeys)
        /\ \A k \in KeptKeys :
               IntegerAmounts(k) =>
                   Occurrences(rendered.points, TotalPoint(k))
                       = Cardinality({j \in KeptKeys :
                             IntegerAmounts(j) /\ TotalPoint(j) = TotalPoint(k)})

\* a bucket of two records, 100 and 300, totalled to 400
C11_TwoAmountsTotalled ==
    /\ groupBy = "status" /\ metric = "totalAmount"
    /\ \E k \in KeptKeys : Len(KeptOf(k)) = 2 /\ IntegerAmounts(k)
    /\ Pt("Open", 400) \in Range(rendered.points)

-----------------------------------------------------------------------------
(* C12 *)

AvgPoint(k) ==
    [name  |-> Label(k, groupBy, clients, teamMembers, timezoneOffset),
     value |-> Ratio(NumericSum(KeptOf(k)), Len(KeptOf(k)))]

\* C12: with metric 'avgAmount', the point of every bucket of records with
\* integer amounts has the sum of those amounts divided by the number of
\* records as its value, and the metric of a bucket without records is 0.
C12_AvgIsMean ==
    /\ MetricValue(<<>>, "avgAmount") = Num(0)
    /\ (groupBy # "" /\ metric = "avgAmount") =>
        /\ ~rendered.threw
        /\ Len(rendered.points) = Cardinality(KeptKeys)
        /\ \A k \in KeptKeys :
               IntegerAmounts(k) =>
                   Occurrences(rendered.points, AvgPoint(k))
                       = Cardinality({j \in KeptKeys :
                             IntegerAmounts(j) /\ AvgPoint(j) = AvgPoint(k)})

\* a bucket of two records, 100 and 300, averaged to 200
C12_TwoAmountsAveraged ==
    /\ groupBy = "status" /\ metric = "avgAmount"
    /\ \E k \in KeptKeys :
           /\ Len(KeptOf(k)) = 2 /\ IntegerAmounts(k)
           /\ NumericSum(KeptOf(k)) = 400
    /\ Pt("Open", 200) \in Range(rendered.points)

-----------------------------------------------------------------------------
(* C13 *)

KnownMetrics == {"count", "totalAmount", "avgAmount", "taskCount"}

\* C13: with a metric selector that is not empty and is none of the four
\* known ones, the pipeline returns what it returns for 'count' on the same
\* inputs.
C13_UnknownMetricCounts ==
    (metric # "" /\ metric \notin KnownMetrics) =>
        rendered = Render(dataSource, filters, groupBy, "count")

\* an unknown metric over a bucket of two records
C13_UnknownMetricOverTwo ==
    /\ metric = "median"
    /\ \E i \in DOMAIN rendered.points : rendered.points[i].value = Num(2)

-----------------------------------------------------------------------------
(* C14 *)

\* the lookup list of the current grouping
curLookup ==
    IF groupBy = "clientId" THEN clients
    ELSE IF groupBy \in {"createdById", "assignedToId"} THEN teamMembers
    ELSE <<>>

\* the entries of the lookup list with id k
Matches(k) == {i \in DOMAIN curLookup : curLookup[i].id = k}

FirstMatch(k) == curLookup[CHOOSE i \in Matches(k) : \A j \in Matches(k) : i <= j]

\* the name the claim gives the bucket of key k: the display name of the
\* match, the raw key when there is none
NameAsStated(k) == IF Matches(k) = {} THEN k ELSE FirstMatch(k).name

\* the same, with a match whose display name is blank counted as no match
NameOrRawKey(k) ==
    IF Matches(k) = {} \/ FirstMatch(k).name = Str("") THEN k ELSE FirstMatch(k).name

PointNames == [i \in DOMAIN rendered.points |-> rendered.points[i].name]

LookedUp == groupBy \in {"clientId", "createdById", "assignedToId"}

-----------------------------------------------------------------------------
(* C15 *)

\* the objects handed to the memo as the last render left them
curStore ==
    memoStore(reportMode, dataSource, filters, groupBy, metric, donations,
              activities, projects, cases, clients, teamMembers, timezoneOffset)

\* C15: a run of the pipeline leaves the four collections, the filters
\* object and the two lookup lists as they were handed to it.
C15_InputsUnchanged ==
    [c \in InputCells |-> curStore[c]] =
        [donations |-> donations, activities |-> activities, projects |-> projects,
         cases |-> cases, filters |-> filters, clients |-> clients,
         teamMembers |-> teamMembers]

\* a run that dropped a record in the filter stage and sorted two points
C15_FilteredAndSorted ==
    /\ "points" \in DOMAIN curStore
    /\ curStore["points"] = rendered.points
    /\ Len(rendered.points) = 2
    /\ Len(curStore["filteredData"]) < Len(curBase)

-----------------------------------------------------------------------------
(* C16 *)

\* C16: with no group the filter returns the collection as it is; the project
\* list shows every project, in order, while activeFilter is null.
C16_NullIsIdentity ==
    /\ \A R \in ProjectCollections :
           applyFilterLogic(R, Null) = [threw |-> FALSE, items |-> R]
    /\ activeFilter = Null => filteredProjects = [threw |-> FALSE, items |-> projects]

\* the list of two projects before any filter is applied
C16_NoFilterYet == activeFilter = Null /\ Len(filteredProjects.items) = 2

-----------------------------------------------------------------------------
(* C17 *)

Passing(record) == evaluate(record, activeFilter).val

-----------------------------------------------------------------------------
(* C18 *)

\* the verdict on a node by the truth tables: a leaf by its condition, an
\* AND when all its children are true, an OR when one of them is; emptyOr
\* is the verdict on an OR without children
RECURSIVE Truth(_, _, _)
Truth(record, node, emptyOr) ==
    IF ~IsGroup(node) THEN evaluateCondition(record, node).val
    ELSE IF node.combinator = "AND"
    THEN \A i \in DOMAIN node.conditions : Truth(record, node.conditions[i], emptyOr)
    ELSE IF node.conditions = <<>> THEN emptyOr
    ELSE \E i \in DOMAIN node.conditions : Truth(record, node.conditions[i], emptyOr)

\* the child at which the evaluation of a group stops: the first false child
\* of an AND, the first true child of an OR, the last child when there is none
StopAt(record, node, emptyOr) ==
    LET decisive == {i \in DOMAIN node.conditions :
                        Truth(record, node.conditions[i], emptyOr) = (node.combinator = "OR")}
    IN  IF decisive = {} THEN Len(node.conditions)
        ELSE CHOOSE i \in decisive : \A j \in decisive : i <= j

\* the leaves evaluated, from left to right, children 1..n of a group
RECURSIVE Visited(_, _, _)
RECURSIVE VisitedUpTo(_, _, _, _)
VisitedUpTo(record, node, n, emptyOr) ==
    IF n = 0 THEN <<>>
    ELSE VisitedUpTo(record, node, n - 1, emptyOr)
             \o Visited(record, node.conditions[n], emptyOr)

Visited(record, node, emptyOr) ==
    IF ~IsGroup(node) THEN <<node>>
    ELSE VisitedUpTo(record, node, StopAt(record, node, emptyOr), emptyOr)

\* C18, as amended: a group without children is true; an AND with children
\* is true exactly when all of them are, an OR with children exactly when one
\* of them is, at any depth; the children are evaluated from left to right up
\* to the first false child of an AND and the first true child of an OR.
C18_CombinatorsShortCircuit ==
    activeFilter # Null =>
        \A i \in DOMAIN projects :
            evaluate(projects[i], activeFilter) =
                [threw |-> FALSE,
                 val   |-> Truth(projects[i], activeFilter, TRUE),
                 trace |-> Visited(projects[i], activeFilter, TRUE)]

\* C18, as stated: an AND is true exactly when all its children are, an OR
\* exactly when at least one of them is, at any depth; the children are
\* evaluated from left to right up to the first false child of an AND and
\* the first true child of an OR.
C18_CombinatorsAsStated ==
    activeFilter # Null =>
        \A i \in DOMAIN projects :
            evaluate(projects[i], activeFilter) =
                [threw |-> FALSE,
                 val   |-> Truth(projects[i], activeFilter, FALSE),
                 trace |-> Visited(projects[i], activeFilter, FALSE)]

\* an AND of a group and a leaf, stopped after the group on one project and
\* gone through to the leaf on the other
C18_StoppedAndNot ==
    /\ activeFilter # Null /\ activeFilter.combinator = "AND"
    /\ Len(activeFilter.conditions) = 2
    /\ IsGroup(activeFilter.conditions[1]) /\ ~IsGroup(activeFilter.conditions[2])
    /\ \E i \in DOMAIN projects : \E j \in DOMAIN projects :
           /\ Len(evaluate(projects[i], activeFilter).trace) = 2
           /\ Len(evaluate(projects[j], activeFilter).trace) = 3

-----------------------------------------------------------------------------
(* C19 *)

EmptyAnd == [combinator |-> "AND", conditions |-> <<>>]

\* C19: under an AND group without conditions every record passes: the
\* filter returns the collection as it is.
C19_EmptyAndPassesAll ==
    /\ \A R \in ProjectCollections :
           applyFilterLogic(R, EmptyAnd) = [threw |-> FALSE, items |-> R]
    /\ activeFilter = EmptyAnd => filteredProjects = [threw |-> FALSE, items |-> projects]

\* two projects listed under the empty AND group
C19_EmptyAndApplied == activeFilter = EmptyAnd /\ Len(filteredProjects.items) = 2

-----------------------------------------------------------------------------
(* C20 *)

Unknown(cond) == cond.operator \notin KnownOperators

\* a record under a group of leaves, a leaf with an unknown operator
\* counting as a non-match and the other leaves for what they are
FlatPass(record) ==
    LET cs == activeFilter.conditions
        match(i) == ~Unknown(cs[i]) /\ evaluateCondition(record, cs[i]).val
    IN  IF cs = <<>> THEN TRUE
        ELSE IF activeFilter.combinator = "AND" THEN \A i \in DOMAIN cs : match(i)
        ELSE \E i \in DOMAIN cs : match(i)

\* C20: a condition with an unknown operator raises nothing and is false on
\* every record, and the filter goes on with the other conditions and the
\* other records: under a group of leaves the list holds the records that
\* pass with the unknown leaves taken as false.
C20_UnknownOperatorIsNoMatch ==
    /\ ~filteredProjects.threw
    /\ \A c \in Conditions : \A i \in DOMAIN projects :
           Unknown(c) =>
               evaluate(projects[i], c) = [threw |-> FALSE, val |-> FALSE, trace |-> <<c>>]
    /\ (activeFilter # Null
            /\ \A i \in DOMAIN activeFilter.conditions : ~IsGroup(activeFilter.conditions[i]))
        => filteredProjects.items = SelectSeq(projects, FlatPass)

\* an OR of an unknown operator and a condition that one of two projects
\* meets: that project is listed
C20_UnknownThenMatch ==
    /\ activeFilter # Null /\ activeFilter.combinator = "OR"
    /\ Len(activeFilter.conditions) = 2
    /\ ~IsGroup(activeFilter.conditions[1]) /\ Unknown(activeFilter.conditions[1])
    /\ ~IsGroup(activeFilter.conditions[2]) /\ ~Unknown(activeFilter.conditions[2])
    /\ Len(projects) = 2 /\ Len(filteredProjects.items) = 1
    /\ filteredProjects.items[1] = projects[2]

\* ------------------------------------------------------------------------
\* ProjectList: the saved-filter registry
\* ------------------------------------------------------------------------

\* the onSaveFilter calls one run makes at most
MaxSaves == 3

\* names the filter panel hands to onSaveFilter
FilterNames == {"mine", "late"}

\* groups the filter panel hands to onSaveFilter
SavedGroups ==
    { [combinator |-> "AND", conditions |-> <<>>],
      [combinator |-> "OR",
       conditions |-> << [field |-> "status", operator |-> "equals", value |-> Str("Planning")] >>] }

\* values of Date.now() at a call; two calls may fall in the same millisecond
Clock == {1, 2}

\* const newFilter: SavedFilter = { id: `filter-${Date.now()}`, name, group, createdAt: new Date() }
newFilter(name, group, now) ==
    [id |-> "filter-" \o ToString(now), name |-> name, group |-> group,
     createdAt |-> now]

\* [...savedFilters, newFilter]: savedFilters is the constant of the render
\* whose closure the handler is, whatever was queued since
spreadOfClosure(seen, queued) == seen

InitSaved ==
    /\ projects \in ProjectCollections
    /\ ReportsUnmounted
    /\ activeFilter = Null
    /\ filteredProjects = filteredProjectsMemo(projects, activeFilter)
    /\ SavedIdle /\ ChatIdle /\ ServiceIdle /\ NotesIdle

\* onSaveFilter={(name, group) => { ...; setSavedFilters([...savedFilters, newFilter]); }}
onSaveFilter(name, group, now) ==
    /\ Len(saveCalls) < MaxSaves
    /\ queuedSavedFilters' =
           Append(queuedSavedFilters,
                  Append(spreadOfClosure(savedFilters, queuedSavedFilters),
                         newFilter(name, group, now)))
    /\ saveCalls' = Append(saveCalls, newFilter(name, group, now))
    /\ UNCHANGED <<savedFilters, props, reportVars, insightVars, listVars,
                   chatVars, call, noteVars>>

\* the re-render React schedules after setSavedFilters: the queued values are
\* applied in order, so the state is the last of them
renderSaved ==
    /\ queuedSavedFilters # <<>>
    /\ savedFilters' = queuedSavedFilters[Len(queuedSavedFilters)]
    /\ queuedSavedFilters' = <<>>
    /\ UNCHANGED <<saveCalls, props, reportVars, insightVars, listVars,
                   chatVars, call, noteVars>>

NextSaved ==
    \/ \E name \in FilterNames, group \in SavedGroups, now \in Clock :
           onSaveFilter(name, group, now)
    \/ renderSaved

SpecSaved == InitSaved /\ [][NextSaved]_vars

\* C21: once the component has re-rendered after onSaveFilter calls, the
\* registry holds one entry per call, in call order, none removed or altered --
\* also when two calls were made before the re-render.
C21_RegistryHoldsEveryCall ==
    queuedSavedFilters = <<>> => savedFilters = saveCalls

\* two calls were made before one re-render, which has now happened
C21_TwoCallsOneRender ==
    /\ Len(saveCalls) = 2
    /\ queuedSavedFilters = <<>>
    /\ Len(savedFilters) = 1

\* ------------------------------------------------------------------------
\* Reports as its controls drive it: the selects offer the options of the
\* current data source, the chart type can be chosen, insights can be asked for
\* ------------------------------------------------------------------------

\* the collections the view is mounted on
UICollections == {<<>>, SampleRecords}

\* options of the chart-type select
ChartTypes == {"bar", "pie", "line"}

\* options={[{ value: '', label: 'Select...' }, ...groupOptions]}
GroupBySelect(ds) == {""} \cup {groupOptions(ds)[i] : i \in DOMAIN groupOptions(ds)}

\* options={[{ value: '', label: 'Select...' }, ...metricOptions]}
MetricSelect(ds) == {""} \cup {metricOptions(ds)[i] : i \in DOMAIN metricOptions(ds)}

\* what generateChartInsights resolves with: the text of the model about the
\* data it was given, or its error fallback
InsightsOn(ds) == "insights on " \o ds
InsightsFallback == "- Could not generate insights at this time."
InsightsOutcomes(ds) == {InsightsOn(ds), InsightsFallback}

InitUI ==
    /\ \E recs \in UICollections :
        /\ donations  = Collection(recs, "donations")
        /\ activities = Collection(recs, "activities")
        /\ projects   = Collection(recs, "projects")
        /\ cases      = Collection(recs, "cases")
    /\ clients = ClientList
    /\ teamMembers = TeamMemberList
    /\ timezoneOffset = 0
    /\ reportMode = "database"
    /\ dataSource = "donations"
    /\ filters = NoFilters
    /\ groupBy = FirstOption(groupOptions("donations"))
    /\ metric = FirstOption(metricOptions("donations"))
    /\ chartType = ChartFor(groupBy)
    /\ rendered = Render(dataSource, filters, groupBy, metric)
    /\ InsightsIdle
    /\ ListUnmounted
    /\ SavedIdle /\ ChatIdle /\ ServiceIdle /\ NotesIdle

\* onChange of the chart-type select
setChartType(v) ==
    /\ Mounted
    /\ v # chartType
    /\ chartType' = v
    /\ UNCHANGED <<props, reportMode, dataSource, filters, groupBy, metric, rendered>>
    /\ UNCHANGED <<insightVars, listVars, restVars>>

\* handleGenerateInsights up to its await; the button is disabled while
\* isLoadingInsights or when there is nothing to chart
handleGenerateInsights ==
    /\ Mounted
    /\ ~isLoadingInsights
    /\ rendered.points # <<>>
    /\ isLoadingInsights' = TRUE
    /\ aiInsights' = ""
    /\ insightsRequests' = Append(insightsRequests, dataSource)
    /\ UNCHANGED <<props, reportVars, listVars, restVars>>

\* the rest of handleGenerateInsights, once generateChartInsights resolved
insightsResolved(summary) ==
    /\ insightsRequests # <<>>
    /\ summary \in InsightsOutcomes(Head(insightsRequests))
    /\ insightsRequests' = Tail(insightsRequests)
    /\ IF Mounted
       THEN /\ aiInsights' = summary
            /\ isLoadingInsights' = FALSE
       ELSE UNCHANGED <<aiInsights, isLoadingInsights>>
    /\ UNCHANGED <<props, reportVars, listVars, restVars>>

NextUI ==
    \/ \E ds \in DataSources : setDataSource(ds)
    \/ \E v \in GroupBySelect(dataSource) : setGroupBy(v)
    \/ \E v \in MetricSelect(dataSource) : setMetric(v)
    \/ \E v \in ChartTypes : setChartType(v)
    \/ \E v \in StartInputs : dataSource # "projects" /\ ChangeStart(v)
    \/ \E v \in StatusInputs : dataSource = "projects" /\ ChangeSelect("status", v)
    \/ handleGenerateInsights
    \/ \E ds \in DataSources : \E summary \in InsightsOutcomes(ds) :
           insightsResolved(summary)

SpecUI == InitUI /\ [][NextUI]_vars

\* C23: whenever aiInsights is not empty it was generated from the data source
\* now selected (or is the fallback, which is about none); a response that
\* arrives after a data-source change does not bring back text about the
\* previous source.
C23_InsightsAboutCurrentSource ==
    Mounted => aiInsights \in {"", InsightsFallback, InsightsOn(dataSource)}

\* C22: a step that changes the data source and lets the reset effect run
\* leaves filters at the empty date range, groupBy at the first group option
\* of the new source and metric at its first metric option; so groupBy and
\* metric are always options of the current source or the '' of 'Select...',
\* which only the user's pick brings.
C22_ResetOnSourceChange ==
    /\ [][(dataSource' # dataSource /\ Mounted') =>
            /\ filters' = [dateRange |-> [start |-> Str(""), end |-> Str("")]]
            /\ groupBy' = groupOptions(dataSource')[1]
            /\ metric' = metricOptions(dataSource')[1]]_vars
    /\ [](Mounted =>
            /\ groupBy \in GroupBySelect(dataSource)
            /\ metric \in MetricSelect(dataSource))

\* projects were selected after a group, a metric and a date of another
\* source had been chosen; the view shows the first options of projects
C22_SettledOnProjects ==
    /\ dataSource = "projects"
    /\ Mounted
    /\ groupBy = "status"
    /\ metric = "count"
    /\ filters = NoFilters

\* C24: a step that changes groupBy or the data source leaves chartType at
\* 'line' when the new groupBy is 'month' and at 'bar' otherwise, whatever
\* chart type had been chosen by hand; a step that changes neither, and is no
\* choice of chart type, leaves chartType alone.
C24_ChartTypeFollowsGroupBy ==
    [][/\ ((groupBy' # groupBy \/ dataSource' # dataSource) /\ Mounted') =>
            chartType' = (IF groupBy' = "month" THEN "line" ELSE "bar")
       /\ (/\ groupBy' = groupBy
           /\ dataSource' = dataSource
           /\ <<filters, metric, insightVars>>' # <<filters, metric, insightVars>>) =>
            chartType' = chartType]_vars

\* month was picked in the Group By select of the activities, and the chart
\* is a line
C24_LineByMonth ==
    /\ dataSource = "activities"
    /\ Mounted
    /\ groupBy = "month"
    /\ chartType = "line"

\* ------------------------------------------------------------------------
\* AiChatBot
\* ------------------------------------------------------------------------

\* the messages a conversation holds at most, the greeting included
MaxMessages == 5

\* the characters String.prototype.trim removes, of those typed here
WhiteSpace == {" "}

\* a string as its characters
RECURSIVE TrimStart(_)
TrimStart(chars) ==
    IF chars # <<>> /\ Head(chars) \in WhiteSpace THEN TrimStart(Tail(chars)) ELSE chars

RECURSIVE TrimEnd(_)
TrimEnd(chars) ==
    IF chars # <<>> /\ chars[Len(chars)] \in WhiteSpace
    THEN TrimEnd(SubSeq(chars, 1, Len(chars) - 1))
    ELSE chars

\* userInput.trim()
Trim(chars) == TrimEnd(TrimStart(chars))

\* what is typed into the input
ChatInputs == {<<>>, <<" ">>, <<"h", "i">>, <<" ", "h", "i", " ">>, <<"y", "o">>}

\* { id: 'init', roomId: 'ai-chat', senderId: 'AI', text: 'Hello! ...' }
Greeting ==
    [roomId |-> "ai-chat", senderId |-> "AI",
     text |-> "Hello! How can I help you today?"]

\* userMessage and aiMessage, without the id and the timestamp read off the clock
ChatMessage(sender, text) == [roomId |-> "ai-chat", senderId |-> sender, text |-> text]

\* how chat.sendMessage ends
SendOutcomes == {"response", "error"}

\* chatWithBot past its API-key test, without its catch: the rejection of
\* chat.sendMessage is the rejection of chatWithBot
chatWithBotNoCatch(outcome) ==
    IF outcome = "response"
    THEN [resolved |-> TRUE, text |-> <<"r", "e", "p", "l", "y">>]
    ELSE [resolved |-> FALSE]

\* chatWithBot past its API-key test: try { return response.text }
\* catch { return "Sorry, I encountered an error." }
chatWithBot(outcome) ==
    IF outcome = "response"
    THEN [resolved |-> TRUE, text |-> <<"r", "e", "p", "l", "y">>]
    ELSE [resolved |-> TRUE, text |-> <<"S", "o", "r", "r", "y">>]

\* the test of handleSendMessage without its isLoading part
acceptsWhileLoading(input, loading) == Trim(input) # <<>>

\* !( !userInput.trim() || isLoading )
accepts(input, loading) == Trim(input) # <<>> /\ ~loading

InitChat ==
    /\ projects = <<>>
    /\ ReportsUnmounted
    /\ ListUnmounted
    /\ SavedIdle /\ ServiceIdle /\ NotesIdle
    /\ isOpen = FALSE
    /\ messages = <<Greeting>>
    /\ userInput = <<>>
    /\ isLoading = FALSE
    /\ chatRequests = <<>>

\* the round button, and the cross of the header
setIsOpen(v) ==
    /\ isOpen # v
    /\ isOpen' = v
    /\ UNCHANGED <<messages, userInput, isLoading, chatRequests>>
    /\ UNCHANGED <<props, reportVars, insightVars, listVars, savedVars, call, noteVars>>

\* onChange of the input
setUserInput(v) ==
    /\ isOpen
    /\ userInput # v
    /\ userInput' = v
    /\ UNCHANGED <<isOpen, messages, isLoading, chatRequests>>
    /\ UNCHANGED <<props, reportVars, insightVars, listVars, savedVars, call, noteVars>>

\* handleSendMessage up to its await
handleSendMessage ==
    /\ isOpen
    /\ Len(messages) + 2 <= MaxMessages \/ ~accepts(userInput, isLoading)
    /\ IF accepts(userInput, isLoading)
       THEN /\ messages' = Append(messages, ChatMessage("USER", Trim(userInput)))
            /\ userInput' = <<>>
            /\ isLoading' = TRUE
            /\ chatRequests' = Append(chatRequests,
                                      [history |-> messages, newMessage |-> Trim(userInput)])
       ELSE UNCHANGED <<messages, userInput, isLoading, chatRequests>>
    /\ UNCHANGED isOpen
    /\ UNCHANGED <<props, reportVars, insightVars, listVars, savedVars, call, noteVars>>

\* the rest of handleSendMessage once chatWithBot settled; it has no catch,
\* so a rejection ends it there
chatSettled(outcome) ==
    /\ chatRequests # <<>>
    /\ chatRequests' = Tail(chatRequests)
    /\ LET settled == chatWithBot(outcome)
       IN  IF settled.resolved
           THEN /\ messages' = Append(messages, ChatMessage("AI", settled.text))
                /\ isLoading' = FALSE
           ELSE UNCHANGED <<messages, isLoading>>
    /\ UNCHANGED <<isOpen, userInput>>
    /\ UNCHANGED <<props, reportVars, insightVars, listVars, savedVars, call, noteVars>>

\* the awaited call settles
chatSettles == \E outcome \in SendOutcomes : chatSettled(outcome)

NextChat ==
    \/ \E v \in BOOLEAN : setIsOpen(v)
    \/ \E v \in ChatInputs : setUserInput(v)
    \/ handleSendMessage
    \/ chatSettles

SpecChat == InitChat /\ [][NextChat]_vars

\* a request that was made is answered
SpecChatFair == SpecChat /\ WF_vars(chatSettles)

\* the senders of the messages, in order
Senders == [i \in DOMAIN messages |-> messages[i].senderId]

\* C25: a submit with an empty trimmed input, or while isLoading, appends no
\* message and sends no request; at most one chatWithBot request is in flight;
\* each accepted submit appends one USER message, which one AI message follows:
\* after the greeting the messages alternate USER, AI, and the last one is a
\* USER message exactly while its request is in flight.
C25_SubmitGuardedOneInFlight ==
    /\ [](Len(chatRequests) <= 1)
    /\ [](\A i \in DOMAIN messages :
            messages[i].senderId = (IF i % 2 = 1 THEN "AI" ELSE "USER"))
    /\ []((Len(messages) % 2 = 0) <=> (chatRequests # <<>>))
    /\ [][(messages' # messages \/ chatRequests' # chatRequests) =>
            \/ /\ Trim(userInput) # <<>>
               /\ ~isLoading
               /\ messages' = Append(messages,
                                     [roomId |-> "ai-chat", senderId |-> "USER",
                                      text |-> Trim(userInput)])
               /\ Len(chatRequests') = Len(chatRequests) + 1
            \/ /\ chatRequests # <<>>
               /\ chatRequests' = Tail(chatRequests)
               /\ Len(messages') = Len(messages) + 1
               /\ messages'[Len(messages')].senderId = "AI"
               /\ SubSeq(messages', 1, Len(messages)) = messages]_vars

\* a second question is typed, with blanks around it, while the second request
\* is in flight
C25_TypedWhileLoading ==
    /\ isLoading
    /\ Len(chatRequests) = 1
    /\ Senders = <<"AI", "USER", "AI", "USER">>
    /\ messages[4].text = <<"h", "i">>
    /\ userInput = <<" ", "h", "i", " ">>

\* C26: after an accepted submit isLoading becomes false again, whether the
\* request succeeds or fails.
C26_LoadingEnds == isLoading ~> ~isLoading

\* the request failed, the apology is shown and the bot is idle again
C26_IdleAfterFailure ==
    /\ ~isLoading
    /\ chatRequests = <<>>
    /\ Len(messages) = 3
    /\ messages[3] = [roomId |-> "ai-chat", senderId |-> "AI",
                      text |-> <<"S", "o", "r", "r", "y">>]

\* ------------------------------------------------------------------------
\* geminiService: one call of an exported function, from its invocation to
\* the settling of the promise it returns
\* ------------------------------------------------------------------------

\* per exported function: what it returns without an API key, what its catch
\* returns, and whether its try parses the response (JSON.parse, or a path
\* into the response that raises when a part is missing)
ServiceTable ==
    [generateProjectSummary |->
        [noKey |-> [summary |-> Str("API key is not configured."), sources |-> <<>>],
         error |-> [summary |-> Str("An error occurred while generating the summary."),
                    sources |-> <<>>],
         parses |-> FALSE],
     analyzeProjectRisk |->
        [noKey |-> [riskLevel |-> Str("Low"), explanation |-> Str("API key not configured.")],
         error |-> [riskLevel |-> Str("Low"),
                    explanation |-> Str("An error occurred during risk analysis.")],
         parses |-> TRUE],
     generateDonorInsights |->
        [noKey |-> [insights |-> Str("API Key not configured."),
                    suggestion |-> [text |-> Str(""), actionType |-> Str("None")]],
         error |-> [insights |-> Str("An error occurred while generating insights."),
                    suggestion |-> [text |-> Str("Please try again later."),
                                    actionType |-> Str("None")]],
         parses |-> TRUE],
     generateSpokenText |-> [noKey |-> Null, error |-> Null, parses |-> FALSE],
     generateFormFromDescription |->
        [noKey |-> Str("{\"error\":\"API key is not configured.\"}"),
         error |-> Str("{\"error\":\"An error occurred while generating the form.\"}"),
         parses |-> FALSE],
     generateEmailContent |->
        [noKey |-> [subject |-> Str("Error"), body |-> Str("API key is not configured.")],
         error |-> [subject |-> Str("Generation Failed"),
                    body |-> Str("Sorry, an error occurred while trying to generate the email content.")],
         parses |-> TRUE],
     generateSubjectLineVariations |->
        [noKey |-> [subjectA |-> Str("Error: API Key not configured"), subjectB |-> Str("")],
         error |-> [subjectA |-> Str("Failed to generate subjects."), subjectB |-> Str("")],
         parses |-> TRUE],
     generateGrantNarrative |->
        [noKey |-> Str("API key not configured."),
         error |-> Str("An error occurred while generating the narrative."),
         parses |-> FALSE],
     generateColorPalette |->
        [noKey |-> Str("{\"error\":\"API key is not configured.\"}"),
         error |-> Str("{\"error\":\"Failed to generate palette.\"}"),
         parses |-> FALSE],
     generateWebpageText |->
        [noKey |-> Str("API key not configured."),
         error |-> Str("Error generating text."),
         parses |-> FALSE],
     generateImage |-> [noKey |-> Null, error |-> Null, parses |-> TRUE],
     analyzeSeo |->
        [noKey |-> Str("API key not configured."),
         error |-> Str("Error analyzing content."),
         parses |-> FALSE],
     chatWithBot |->
        [noKey |-> Str("API key not configured."),
         error |-> Str("Sorry, I encountered an error."),
         parses |-> FALSE],
     processTextWithAction |->
        [noKey |-> Str("API key not configured."),
         error |-> Str("Error: Could not process text. Original: "),
         parses |-> FALSE],
     analyzeImage |->
        [noKey |-> Str("API key not configured."),
         error |-> Str("Error analyzing image."),
         parses |-> FALSE],
     transcribeAudio |->
        [noKey |-> Str("API key not configured."),
         error |-> Str("Error transcribing audio. The model may not support this audio format."),
         parses |-> FALSE],
     findNearbyPlaces |->
        [noKey |-> [text |-> Str("API key is not configured."), sources |-> <<>>],
         error |-> [text |-> Str("An error occurred while searching for places."),
                    sources |-> <<>>],
         parses |-> FALSE],
     generateReportSummary |->
        [noKey |-> Str("API key not configured."),
         error |-> Str("An error occurred while generating the report summary."),
         parses |-> FALSE],
     generateChartInsights |->
        [noKey |-> Str("- API key is not configured."),
         error |-> Str("- Could not generate insights at this time."),
         parses |-> FALSE],
     performAdvancedSearch |->
        [noKey |-> [internalResults |-> <<>>, webResults |-> <<>>],
         error |-> [internalResults |-> <<>>, webResults |-> <<>>],
         parses |-> TRUE],
     generateDailyBriefing |->
        [noKey |-> Str("Good morning, ! The AI briefing service is currently unavailable."),
         error |-> Str("Apologies, but I couldn't generate your daily briefing at this moment. There might be an issue with the AI service. Please try again later."),
         parses |-> FALSE]]

\* the exported functions
ServiceFunctions == DOMAIN ServiceTable

\* the text argument of a call: userName, text, query, prompt
ServiceTexts == {"Ana", "Bo"}

\* how a request to the model ends: a response the function can use, a
\* response it cannot parse, or a rejection
RequestOutcomes == {"ok", "malformed", "rejected"}

\* the return of the if (!process.env.API_KEY) branch; generateDailyBriefing
\* greets the user by name in it
noKeyFallback(fn, text) ==
    IF fn = "generateDailyBriefing"
    THEN Str("Good morning, " \o text
             \o "! The AI briefing service is currently unavailable.")
    ELSE ServiceTable[fn].noKey

\* the return of the catch; processTextWithAction hands the text back in it
errorFallback(fn, text) ==
    IF fn = "processTextWithAction"
    THEN Str(ServiceTable[fn].error.v \o text)
    ELSE ServiceTable[fn].error

\* generateDailyBriefing with nothing due: returned before any request
ClearDay(text) ==
    Str("Good morning, " \o text \o ". Your day looks clear! You have no tasks due this week, no recent high-priority cases, and no meetings scheduled for today. Enjoy the calm!")

\* response.text of a request that ended well, and of one whose text is not
\* what was asked for
ModelText == Str("text of the model")
MalformedText == Str("Sorry, I cannot answer in JSON")

\* JSON.parse(internalResponse.text) of a request that ended well
InternalIds == [clientIds |-> <<Str("c1")>>, projectIds |-> <<>>]

\* parsedWeb.leads.map(...) of a request that ended well
WebLeads ==
    << [name |-> Str("Helping Hands"), description |-> Str("No description available."),
        url |-> Undefined, source |-> Str("#")] >>

\* what the try returns when nothing in it raises
returned(fn, outcome) ==
    LET text == IF outcome = "ok" THEN ModelText ELSE MalformedText
    IN  CASE fn \in {"generateProjectSummary"} -> [summary |-> text, sources |-> <<>>]
          [] fn = "findNearbyPlaces" -> [text |-> text, sources |-> <<>>]
          [] fn = "generateSpokenText" ->
                 IF outcome = "ok" THEN Str("base64 audio") ELSE Null
          [] fn = "generateImage" -> Str("base64 image")
          [] ServiceTable[fn].parses -> [json |-> text]
          [] OTHER -> text

\* a function whose parsing stands after its try: a response that cannot be
\* parsed rejects the promise
afterRequestParseOutsideTry(fn, text, outcome) ==
    CASE outcome = "rejected" ->
             [how |-> "resolved", value |-> errorFallback(fn, text)]
      [] outcome = "malformed" /\ ServiceTable[fn].parses ->
             [how |-> "rejected", value |-> Str("SyntaxError")]
      [] OTHER -> [how |-> "resolved", value |-> returned(fn, outcome)]

\* try { const response = await ...; return <response.text, parsed or wrapped> }
\* catch (error) { return <error fallback> }
afterRequest(fn, text, outcome) ==
    CASE outcome = "rejected" ->
             [how |-> "resolved", value |-> errorFallback(fn, text)]
      [] outcome = "malformed" /\ ServiceTable[fn].parses ->
             [how |-> "resolved", value |-> errorFallback(fn, text)]
      [] OTHER -> [how |-> "resolved", value |-> returned(fn, outcome)]

\* performAdvancedSearch from its try on: Promise.all rejects when either
\* request does; the inner try keeps a web response that cannot be parsed
\* from reaching the outer catch
afterSearch(text, internal, web) ==
    IF internal = "rejected" \/ web = "rejected" \/ internal = "malformed"
    THEN [how |-> "resolved", value |-> errorFallback("performAdvancedSearch", text)]
    ELSE [how |-> "resolved",
          value |-> [internalResults |-> InternalIds,
                     webResults |-> IF web = "ok" THEN WebLeads ELSE <<>>]]

InitService ==
    /\ projects = <<>>
    /\ ReportsUnmounted
    /\ ListUnmounted
    /\ SavedIdle /\ ChatIdle /\ NotesIdle
    /\ call = [pc |-> "idle"]

\* a call of fn up to its first await, or to its return when it has none:
\* includeWebSearch is the flag of performAdvancedSearch, busyDay tells whether
\* generateDailyBriefing was given anything to report
invoke(fn, key, text, includeWebSearch, busyDay) ==
    /\ call.pc \in {"idle", "settled"}
    /\ includeWebSearch => fn = "performAdvancedSearch"
    /\ ~busyDay => fn = "generateDailyBriefing"
    /\ call' =
         CASE ~key ->
                  [pc |-> "settled", fn |-> fn, text |-> text, key |-> FALSE,
                   requests |-> {}, outcomes |-> <<>>,
                   how |-> "resolved", value |-> noKeyFallback(fn, text)]
           [] key /\ ~busyDay ->
                  [pc |-> "settled", fn |-> fn, text |-> text, key |-> TRUE,
                   requests |-> {}, outcomes |-> <<>>,
                   how |-> "resolved", value |-> ClearDay(text)]
           [] OTHER ->
                  [pc |-> "awaiting", fn |-> fn, text |-> text, key |-> TRUE,
                   requests |-> IF fn = "performAdvancedSearch"
                                THEN IF includeWebSearch THEN {"internal", "web"}
                                     ELSE {"internal"}
                                ELSE {"model"}]
    /\ UNCHANGED <<props, reportVars, insightVars, listVars, savedVars, chatVars, noteVars>>

\* the awaited requests have ended, and the function runs to its return
settle(first, second) ==
    /\ call.pc = "awaiting"
    /\ (second = "none") <=> ("web" \notin call.requests)
    /\ LET after == IF call.fn = "performAdvancedSearch"
                    THEN afterSearch(call.text, first, second)
                    ELSE afterRequest(call.fn, call.text, first)
       IN  call' = [pc |-> "settled", fn |-> call.fn, text |-> call.text,
                    key |-> TRUE, requests |-> call.requests,
                    outcomes |-> <<first, second>>,
                    how |-> after.how, value |-> after.value]
    /\ UNCHANGED <<props, reportVars, insightVars, listVars, savedVars, chatVars, noteVars>>

NextService ==
    \/ \E fn \in ServiceFunctions, key \in BOOLEAN, text \in ServiceTexts,
          includeWebSearch \in BOOLEAN, busyDay \in BOOLEAN :
           invoke(fn, key, text, includeWebSearch, busyDay)
    \/ \E first \in RequestOutcomes, second \in RequestOutcomes \cup {"none"} :
           settle(first, second)

SpecService == InitService /\ [][NextService]_vars

\* the call has settled
Settled == call.pc = "settled"

\* a request of the settled call was rejected, or its response could not be
\* parsed by a function that parses it
RequestFailed ==
    \E i \in DOMAIN call.outcomes :
        \/ call.outcomes[i] = "rejected"
        \/ call.outcomes[i] = "malformed" /\ ServiceTable[call.fn].parses

\* the web response of performAdvancedSearch could not be parsed, and nothing
\* else failed
OnlyWebMalformed ==
    /\ call.fn = "performAdvancedSearch"
    /\ call.outcomes = <<"ok", "malformed">>

C28_WebFailureKeepsInternal ==
    (Settled /\ call.fn = "performAdvancedSearch" /\ call.key) =>
        /\ (call.outcomes[1] = "ok" /\ call.outcomes[2] \in {"rejected", "malformed"}) =>
              call.value = [internalResults |-> InternalIds, webResults |-> <<>>]
        /\ call.outcomes[2] = "none" =>
              /\ call.requests = {"internal"}
              /\ call.value.webResults = <<>>

\* the web request was rejected while the internal one went well
C28_WebRequestRejected ==
    /\ Settled
    /\ call.fn = "performAdvancedSearch"
    /\ call.outcomes = <<"ok", "rejected">>

\* the kept records that have a grouping value, in order
KeyedRecords ==
    SelectSeq(curKept,
              LAMBDA r : GroupKey(r, groupBy, curDateKey, timezoneOffset)
                             \notin {Undefined, Null})

\* the sum of the values of the points
RECURSIVE SumValues(_)
SumValues(points) ==
    IF points = <<>> THEN 0 ELSE Head(points).value.n + SumValues(Tail(points))

\* C29: the buckets partition the grouped records: every filtered record with
\* a grouping value is in exactly one bucket, the one of its key, as often as
\* it occurs; no bucket is empty; there are as many points as distinct keys;
\* and with metric 'count' the values add up to the number of filtered records
\* that have a grouping value.
C29_BucketsPartition ==
    (groupBy # "" /\ ~rendered.threw) =>
        /\ \A r \in Range(KeyedRecords) :
               /\ Cardinality({g \in DOMAIN curGroups :
                                  r \in Range(curGroups[g].items)}) = 1
               /\ \A g \in DOMAIN curGroups :
                      r \in Range(curGroups[g].items) =>
                          /\ curGroups[g].name
                                 = GroupKey(r, groupBy, curDateKey, timezoneOffset)
                          /\ Occurrences(curGroups[g].items, r)
                                 = Occurrences(curKept, r)
        /\ \A g \in DOMAIN curGroups :
               /\ curGroups[g].items # <<>>
               /\ Range(curGroups[g].items) \subseteq Range(KeyedRecords)
        /\ Len(rendered.points) = Cardinality(KeptKeys)
        /\ Len(rendered.points) = Len(curGroups)
        /\ metric = "count" => SumValues(rendered.points) = Len(KeyedRecords)

\* two records of one client, counted in one bucket
C29_TwoInOneBucket ==
    /\ groupBy = "clientId"
    /\ metric = "count"
    /\ Len(curKept) = 2
    /\ Len(KeyedRecords) = 2
    /\ Len(rendered.points) = 1
    /\ rendered.points[1].value = Num(2)

\* ------------------------------------------------------------------------
\* ProjectDetail: the task notes
\* ------------------------------------------------------------------------

\* the onUpdateTaskNote calls one run makes at most
MaxNoteUpdates == 2

\* project.id
ProjectId == "p1"

\* the ids of project.tasks
TaskIds == {"t1", "t2"}

\* what is typed into the note editor
NoteTexts == {"", "call back", "done"}

\* setCurrentNote(existingNote) without the `|| ''`
existingNoteUnguarded(existingNote) ==
    IF existingNote.t = "string" THEN existingNote.v ELSE "undefined"

\* existingNote || ''
existingNoteOrEmpty(existingNote) ==
    IF Truthy(existingNote) THEN existingNote.v ELSE ""

InitNotes ==
    /\ projects = <<>>
    /\ ReportsUnmounted
    /\ ListUnmounted
    /\ SavedIdle /\ ChatIdle /\ ServiceIdle
    /\ activeNoteTaskId = Null
    /\ currentNote = ""
    /\ taskNotes \in {[t \in TaskIds |-> IF t = "t1" THEN Str("call back") ELSE Undefined],
                      [t \in TaskIds |-> IF t = "t1" THEN Str("") ELSE Str("done")]}
    /\ noteUpdates = <<>>

\* onClick of the note button of a task: handleNoteToggle(task.id, task.notes)
handleNoteToggle(taskId) ==
    /\ IF activeNoteTaskId = Str(taskId)
       THEN /\ activeNoteTaskId' = Null
            /\ UNCHANGED currentNote
       ELSE /\ activeNoteTaskId' = Str(taskId)
            /\ currentNote' = existingNoteOrEmpty(taskNotes[taskId])
    /\ UNCHANGED <<taskNotes, noteUpdates>>
    /\ UNCHANGED <<props, reportVars, insightVars, listVars, savedVars, chatVars, call>>

\* onValueChange of the editor, which is rendered for the open task
setCurrentNote(text) ==
    /\ activeNoteTaskId # Null
    /\ text # currentNote
    /\ currentNote' = text
    /\ UNCHANGED <<activeNoteTaskId, taskNotes, noteUpdates>>
    /\ UNCHANGED <<props, reportVars, insightVars, listVars, savedVars, chatVars, call>>

\* the Cancel button of the editor: setActiveNoteTaskId(null)
cancelNote ==
    /\ activeNoteTaskId # Null
    /\ activeNoteTaskId' = Null
    /\ UNCHANGED <<currentNote, taskNotes, noteUpdates>>
    /\ UNCHANGED <<props, reportVars, insightVars, listVars, savedVars, chatVars, call>>

\* the Save Note button, rendered in the editor of the open task:
\* handleNoteSave(task.id); the parent may hand back the project with the note
handleNoteSave(taskId, stored) ==
    /\ activeNoteTaskId = Str(taskId)
    /\ Len(noteUpdates) < MaxNoteUpdates
    /\ noteUpdates' = Append(noteUpdates, <<ProjectId, taskId, currentNote>>)
    /\ activeNoteTaskId' = Null
    /\ taskNotes' = IF stored THEN [taskNotes EXCEPT ![taskId] = Str(currentNote)]
                    ELSE taskNotes
    /\ UNCHANGED currentNote
    /\ UNCHANGED <<props, reportVars, insightVars, listVars, savedVars, chatVars, call>>

NextNotes ==
    \/ \E taskId \in TaskIds : handleNoteToggle(taskId)
    \/ \E text \in NoteTexts : setCurrentNote(text)
    \/ cancelNote
    \/ \E taskId \in TaskIds, stored \in BOOLEAN : handleNoteSave(taskId, stored)

SpecNotes == InitNotes /\ [][NextNotes]_vars

\* the note the list shows for a task, '' when it has none
ShownNote(taskId) ==
    IF taskNotes[taskId].t = "string" THEN taskNotes[taskId].v ELSE ""

\* C30: at most one note editor is open: activeNoteTaskId is null or the id of
\* one task; toggling the open task closes it; a step that opens a task, from
\* closed or from another task, sets currentNote to the note of that task or
\* to '' when it has none; a save calls onUpdateTaskNote once, with the project
\* id, the id of the open task and the current text, and closes the editor.
C30_OneEditorSaveOnce ==
    /\ [](activeNoteTaskId = Null \/ \E t \in TaskIds : activeNoteTaskId = Str(t))
    /\ [][/\ \A t \in TaskIds :
                (handleNoteToggle(t) /\ activeNoteTaskId = Str(t)) =>
                    (activeNoteTaskId' = Null /\ noteUpdates' = noteUpdates)
          /\ (activeNoteTaskId' # Null /\ activeNoteTaskId' # activeNoteTaskId) =>
                /\ currentNote' = ShownNote(activeNoteTaskId'.v)
                /\ noteUpdates' = noteUpdates
          /\ noteUpdates' # noteUpdates =>
                /\ activeNoteTaskId # Null
                /\ noteUpdates' = Append(noteUpdates,
                                         <<"p1", activeNoteTaskId.v, currentNote>>)
                /\ activeNoteTaskId' = Null]_vars

\* the note of t2 was written and saved, then the editor of t1 was opened
C30_SavedThenOpenedOther ==
    /\ noteUpdates = << <<"p1", "t2", "done">> >>
    /\ activeNoteTaskId = Str("t1")
    /\ taskNotes["t1"] = Str("call back")
    /\ currentNote = "call back"

====
